---- MODULE Spec2Model ----
(***************************************************************************)
(* A model of task-motel: the TaskManager of src/manager.rs (groups of     *)
(* tasks arranged in a tree, add_task / num_tasks / stop_group) and the    *)
(* stop signal of src/signal.rs (StopBroadcaster / StopListener).          *)
(***************************************************************************)
EXTENDS Integers, Sequences, FiniteSets, TLC

\* ------------------------------------------------------------------------
\* Bounds of the model
\* ------------------------------------------------------------------------
\* the number of add_task and stop_group calls made on the manager
MaxCalls == 4
\* the number of listeners minted from, clones made of and signals sent by
\* a broadcaster that is used on its own, taken together
MaxMade == 4
\* the number of add_task and stop_group calls made on a manager whose three
\* groups are already nested
MaxNest == 3

\* ------------------------------------------------------------------------
\* Program constants
\* ------------------------------------------------------------------------
\* mpsc::channel(1): the buffer of the outcome channel used by the tests
SinkBuffer == 1
\* broadcast::channel(1): capacity of a broadcaster's signal channel
BroadcastCap == 1

\* enum GroupKey of the tests; A, B, C are the chain both parent maps share
Keys == {"A", "B", "C"}
\* all the keys of enum GroupKey
TreeKeys == {"A", "B", "C", "D", "E", "F", "G"}
None == "None"
NoGroup == [absent |-> TRUE]
\* Option<Waker>::None; a waker is named by the broadcaster instance whose
\* poll registered it
NoWaker == 0

\* the parent map of tests::test_descendants, which is that of
\* tests::test_group_nesting on A, B, C, D
parent_map(g) ==
    CASE g = "A" -> None
      [] g = "B" -> "A"
      [] g = "C" -> "B"
      [] g = "D" -> "B"
      [] g = "E" -> "D"
      [] g = "F" -> "E"
      [] g = "G" -> "C"

\* What a factory f does with its listener; f is the caller's code, and what
\* it does is seen when it is called:
\*   blocker : test_util::blocker, keeps its listener and exits once it has
\*             seen the signal
\*   free    : the closure of tests::test_descendants, ignores (drops) its
\*             listener and exits on its own
\* A task that never exits is one whose Work step is never taken.
Kinds == {"blocker", "free"}

VARIABLES
    groups,     \* TaskManager.groups: key -> NoGroup or [tasks, stopper]
    children,   \* TaskManager.children: key -> set of child keys ({} = no entry)
    tasks,      \* every wrapped task future ever made by add_task
    ls,         \* every StopListener ever minted
    bcs,        \* shared state of every broadcaster (num, sem, tx channel)
    handles,    \* every StopBroadcaster instance (the clones share a bcs entry)
    stops,      \* every GroupStop future returned by stop_group
    sink,       \* the outcome channel: queue and whether the receiver is gone
    woken,      \* handles whose waiting task has been woken
    hist        \* observation only: how often parent_map was consulted per key

vars == <<groups, children, tasks, ls, bcs, handles, stops, sink, woken, hist>>

\* ------------------------------------------------------------------------
\* src/signal.rs
\* ------------------------------------------------------------------------

\* a broadcaster that starts with the count of one listener
NewBroadcaster_counted ==
    [num |-> 1, permits |-> 0, msgs |-> <<>>, senders |-> 1, rx |-> 0]

\* StopBroadcaster::new: the shared part (tx channel, sem, num)
\* (rx and senders are the receiver and sender counts the channel keeps)
NewBroadcaster ==
    [num |-> 0, permits |-> 0, msgs |-> <<>>, senders |-> 1, rx |-> 0]

\* StopBroadcaster::new: the instance (waker: None); res is what its last
\* poll returned
NewHandle(b) == [bc |-> b, waker |-> NoWaker, alive |-> TRUE, res |-> "none"]

\* StopBroadcaster::listener, effect on the shared part:
\* num.fetch_add(1); sem.add_permits(1); acquire_owned()
\* (num is an AtomicU32; the model never lets it reach 2^32, and a value
\* below 0 stands for the wrap of fetch_sub at 0)
listener_bc(bc) ==
    [bc EXCEPT !.num = @ + 1, !.permits = (@ + 1) - 1, !.rx = @ + 1]

\* StopBroadcaster::listener, the listener it returns (rx: tx.subscribe());
\* res is what its last poll returned, queued whether a waiter of rx is in
\* the channel's list of waiters, notified whether the waker of the task
\* that polled it has been called since that poll
listener_new(b, bc) ==
    [bc |-> b, pos |-> Len(bc.msgs), live |-> TRUE, waker |-> NoWaker,
     res |-> "none", queued |-> FALSE, notified |-> FALSE]

\* the channel wakes the receivers waiting on it (after a send, and when
\* its last sender is dropped): every queued waiter of broadcaster b is
\* taken off the list and its waker called
notify_rx(L, b) ==
    [l \in DOMAIN L |->
        IF L[l].bc = b /\ L[l].queued
            THEN [L[l] EXCEPT !.queued = FALSE, !.notified = TRUE]
            ELSE L[l]]

\* StopBroadcaster::emit: tx.send(self.waker.clone()).ok(); a send with no
\* receiver is an error, which ok() discards, and queues nothing
emit(bc, h) ==
    IF bc.rx = 0 THEN bc ELSE [bc EXCEPT !.msgs = Append(@, h.waker)]

\* a poll that is also ready as soon as the signal has been sent
poll_ready_on_fire(bc) == bc.num = 0 \/ Len(bc.msgs) > 0

\* StopBroadcaster::len
len(bc) == bc.num

\* impl Future for StopBroadcaster: poll is Ready iff len() == 0
poll_broadcaster_ready(bc) == len(bc) = 0

\* dropping one StopBroadcaster instance drops its clone of tx
drop_handle_bc(bc) == [bc EXCEPT !.senders = @ - 1]

\* rx.recv() of a tokio broadcast receiver positioned at pos:
\* "lagged" when more than BroadcastCap messages are unseen, a value when
\* one is unseen, "closed" when every sender is gone, otherwise pending
recv(bc, l) ==
    IF Len(bc.msgs) - l.pos > BroadcastCap
        THEN [ready |-> TRUE, val |-> NoWaker, pos |-> Len(bc.msgs) - BroadcastCap]
    ELSE IF Len(bc.msgs) > l.pos
        THEN [ready |-> TRUE, val |-> bc.msgs[l.pos + 1], pos |-> l.pos + 1]
    ELSE IF bc.senders = 0
        THEN [ready |-> TRUE, val |-> NoWaker, pos |-> l.pos]
    ELSE [ready |-> FALSE, val |-> NoWaker, pos |-> l.pos]

\* Box::pin(self.rx.recv()).poll_unpin(cx): a pending recv future puts its
\* waiter on the channel's list, and the future, a temporary of the match,
\* is dropped before poll returns, which takes the waiter off the list
recv_dropped(ready) == FALSE

\* impl Future for StopListener: ready when recv is; keeps a received waker
poll_listener(bc, l) ==
    LET r == recv(bc, l)
    IN  [ready |-> r.ready,
         l |-> [l EXCEPT !.pos = r.pos,
                         !.waker = IF r.val # NoWaker THEN r.val ELSE @,
                         !.res = IF r.ready THEN "ready" ELSE "pending",
                         !.queued = recv_dropped(r.ready),
                         !.notified = FALSE]]

\* a drop that gives the permit back but leaves the counter as it is
drop_listener_bc_uncounted(bc) ==
    [bc EXCEPT !.permits = @ + 1, !.rx = @ - 1]

\* impl Drop for StopListener, effect on the shared part:
\* num.fetch_sub(1); the OwnedSemaphorePermit goes back to sem
drop_listener_bc(bc) ==
    [bc EXCEPT !.num = @ - 1, !.permits = @ + 1, !.rx = @ - 1]

\* impl Drop for StopListener: wakes the waker it holds, if any
drop_listener_woken(l) == IF l.waker # NoWaker THEN {l.waker} ELSE {}

\* ------------------------------------------------------------------------
\* src/manager.rs
\* ------------------------------------------------------------------------

\* descendants without the recursion: the key and its children only
descendants_shallow(key) == {key} \cup children[key]

\* TaskManager::descendants
RECURSIVE descendants(_)
descendants(key) ==
    {key} \cup UNION {descendants(child) : child \in children[key]}

\* num_tasks that counts every task ever added under the key
num_tasks_ever(key) ==
    Cardinality({t \in DOMAIN tasks : tasks[t].key = key})

\* TaskManager::num_tasks
num_tasks(key) ==
    IF groups[key] = NoGroup THEN 0 ELSE Cardinality(groups[key].tasks)

\* a group() that enters the key under its parent only when the parent
\* already has a group
group_children_known(key) ==
    IF groups[key] = NoGroup /\ parent_map(key) # None
       /\ groups[parent_map(key)] # NoGroup
        THEN [children EXCEPT ![parent_map(key)] = @ \cup {key}]
        ELSE children

\* TaskManager::group, the adjacency index after the call
group_children(key) ==
    IF groups[key] = NoGroup /\ parent_map(key) # None
        THEN [children EXCEPT ![parent_map(key)] = @ \cup {key}]
        ELSE children

\* a group() that asks the parent map on every call
group_lookups_always(key) == [hist.lookups EXCEPT ![key] = @ + 1]

\* TaskManager::group, the calls of parent_map made so far: the closure of
\* or_insert_with, which makes the one call, runs when the key has no group
group_lookups(key) ==
    [hist.lookups EXCEPT ![key] = IF groups[key] = NoGroup THEN @ + 1 ELSE @]

\* an outcome tagged with the parent of the key
outcome_key_parent(t) == parent_map(t.key)

\* the key the wrapped task sends its outcome under: (key, outcome)
outcome_key(t) == t.key

\* a try_send that refuses once the queue holds SinkBuffer messages
try_send_bounded(snk, parked, msg) ==
    IF snk.closed \/ parked \/ Len(snk.queue) >= SinkBuffer
        THEN [ok |-> FALSE, sink |-> snk, parked |-> parked]
        ELSE [ok |-> TRUE, sink |-> [snk EXCEPT !.queue = Append(@, msg)],
              parked |-> FALSE]

\* mpsc Sender::try_send through a sender that is parked or not: refused
\* when the receiver is gone or the sender is parked, otherwise queued; the
\* sender is parked by a send that takes the queue beyond the buffer, so a
\* sender has one slot of its own
try_send(snk, parked, msg) ==
    IF snk.closed THEN [ok |-> FALSE, sink |-> snk, parked |-> parked]
    ELSE IF parked THEN [ok |-> FALSE, sink |-> snk, parked |-> parked]
    ELSE [ok |-> TRUE, sink |-> [snk EXCEPT !.queue = Append(@, msg)],
          parked |-> Len(snk.queue) + 1 > SinkBuffer]

\* self.outcomes.clone(): the sender a task sends through is a fresh clone,
\* used once, so it is not parked when the task sends
tx_parked(t) == FALSE

Init ==
    /\ groups = [k \in Keys |-> NoGroup]
    /\ children = [k \in Keys |-> {}]
    /\ tasks = <<>>
    /\ ls = <<>>
    /\ bcs = <<>>
    /\ handles = <<>>
    /\ stops = <<>>
    /\ sink = [queue |-> <<>>, closed |-> FALSE]
    /\ woken = {}
    /\ hist = [lookups |-> [k \in Keys |-> 0]]

\* TaskManager::add_task (with TaskManager::group and TaskGroup::new): the
\* group is found or made, a listener is minted from its stopper, and the
\* wrapped task, which has not run yet, is pushed onto the group's tasks
add_task(key) ==
    /\ LET isNew == groups[key] = NoGroup
           b == IF isNew THEN Len(bcs) + 1 ELSE handles[groups[key].stopper].bc
           h == IF isNew THEN Len(handles) + 1 ELSE groups[key].stopper
           bcs1 == IF isNew THEN Append(bcs, NewBroadcaster) ELSE bcs
           t == Len(tasks) + 1
           g == IF isNew THEN [tasks |-> {}, stopper |-> h] ELSE groups[key]
       IN  /\ children' = group_children(key)
           /\ handles' = IF isNew THEN Append(handles, NewHandle(b)) ELSE handles
           /\ ls' = Append(ls, listener_new(b, bcs1[b]))
           /\ bcs' = [bcs1 EXCEPT ![b] = listener_bc(@)]
           /\ tasks' = Append(tasks, [key |-> key, kind |-> None,
                                      listener |-> Len(ls) + 1,
                                      st |-> "registered", calls |-> 0,
                                      sends |-> 0, drops |-> 0,
                                      tag |-> None])
           /\ groups' = [groups EXCEPT ![key] = [g EXCEPT !.tasks = @ \cup {t}]]
           /\ hist' = [hist EXCEPT !.lookups = group_lookups(key)]
    /\ UNCHANGED <<stops, sink, woken>>

\* one of the calls the caller makes on the manager
AddTask(key) ==
    /\ Len(tasks) + Len(stops) < MaxCalls
    /\ add_task(key)

\* a stop_group that removes every registered group
removed_all(key) == {k \in Keys : groups[k] # NoGroup}

\* a stop_group that also removes the group of the parent of the key
removed_family(key) ==
    {k \in Keys : groups[k] # NoGroup
                  /\ (k \in descendants(key) \/ k = parent_map(key))}

\* a stop_group that skips a group whose parent has no group
removed_under_parent(key) ==
    {k \in descendants(key) :
        /\ groups[k] # NoGroup
        /\ (k = key \/ parent_map(k) = None \/ groups[parent_map(k)] # NoGroup)}

\* a stop_group that takes the keys of the groups it removes out of the
\* adjacency index
stop_group_children_pruned(key) ==
    [k \in DOMAIN children |->
        IF k \in descendants(key) /\ groups[k] # NoGroup
            THEN {}
            ELSE {c \in children[k] :
                    ~(c \in descendants(key) /\ groups[c] # NoGroup)}]

\* TaskManager::stop_group, the adjacency index after the call: the loop
\* removes from self.groups only
stop_group_children(key) == children

\* the groups stop_group finds in the registry: self.groups.remove(&key)
\* succeeds for these keys of descendants(key)
removed(key) == {k \in descendants(key) : groups[k] # NoGroup}

\* TaskManager::stop_group
stop_group(key) ==
    /\ LET R == removed(key)
           H == {groups[k].stopper : k \in R}
           B == {handles[h].bc : h \in H}
           hOf(b) == CHOOSE h \in H : handles[h].bc = b
       IN  /\ groups' = [k \in Keys |-> IF k \in R THEN NoGroup ELSE groups[k]]
           \* group.stopper.emit(), and the group is dropped at the end of
           \* the if-let block, its broadcaster with it
           /\ bcs' = [b \in DOMAIN bcs |->
                        IF b \in B
                            THEN drop_handle_bc(emit(bcs[b], handles[hOf(b)]))
                            ELSE bcs[b]]
           /\ handles' = [h \in DOMAIN handles |->
                            IF h \in H THEN [handles[h] EXCEPT !.alive = FALSE]
                                       ELSE handles[h]]
           \* join_all over the task collections of the removed groups
           /\ stops' = Append(stops, [key |-> key,
                                      tasks |-> UNION {groups[k].tasks : k \in R},
                                      polled |-> FALSE, resolved |-> FALSE])
           /\ ls' = [l \in DOMAIN ls |->
                       IF ls[l].bc \in B THEN notify_rx(ls, ls[l].bc)[l] ELSE ls[l]]
    /\ children' = stop_group_children(key)
    /\ UNCHANGED <<tasks, sink, woken, hist>>

\* one of the calls the caller makes on the manager
StopGroup(key) ==
    /\ Len(tasks) + Len(stops) < MaxCalls
    /\ stop_group(key)

\* every order in which the tasks of a set can be taken
Orders(S) ==
    {o \in [1..Cardinality(S) -> S] : \A i, j \in DOMAIN o : i # j => o[i] # o[j]}

\* the sink after the wrapped tasks o[1], o[2], ... have each run
\* tx.try_send((key, outcome)).ok() through their own clone of the sender
RECURSIVE send_all(_, _)
send_all(snk, o) ==
    IF o = <<>> THEN snk
    ELSE send_all(try_send(snk, tx_parked(tasks[Head(o)]),
                           <<outcome_key(tasks[Head(o)]), Head(o)>>).sink,
                  Tail(o))

\* the wrapped task of add_task, polled for the first time: f(listener) is
\* called here, inside the async block
task_start(t, kind) ==
    [t EXCEPT !.st = "running", !.calls = @ + 1, !.kind = kind]

\* the wrapped task of add_task, polled once its inner future is ready:
\* tx.try_send((key, outcome)).ok(), then it completes
task_complete(t, ok) ==
    [t EXCEPT !.st = "done",
              !.sends = IF ok THEN @ + 1 ELSE @,
              !.drops = IF ok THEN @ ELSE @ + 1,
              !.tag = IF ok THEN outcome_key(t) ELSE @]

\* a start at which no task lets go of its listener
dropped_none(S, kinds) == {}

\* the listeners dropped when the tasks of S are started: the closure of
\* tests::test_descendants takes its listener as `_` and so drops it
dropped_at_start(S, kinds) ==
    {tasks[t].listener : t \in {u \in S : kinds[u] = "free"}}

\* the state of the signal after the listeners of L are dropped
drop_listeners_bcs(L) ==
    [b \in DOMAIN bcs |->
        LET n == Cardinality({l \in L : ls[l].bc = b})
        IN  [bcs[b] EXCEPT !.num = @ - n, !.permits = @ + n, !.rx = @ - n]]

\* a future that is ready as soon as one of its tasks has completed
stop_ready_any(T, tk) == \E t \in T : tk[t].st = "done"

\* a future that is ready only after at least one task has completed
stop_ready_nonempty(T, tk) == T # {} /\ \A t \in T : tk[t].st = "done"

\* join_all(tasks).map(|_| ()): ready when every task of every collection
\* has completed (tk is the task table after this poll)
stop_ready(T, tk) == \A t \in T : tk[t].st = "done"

\* one poll of a GroupStop future: join_all polls every task collection, and
\* each collection polls its tasks; the future is ready when all are done
PollStop(s) ==
    /\ s \in DOMAIN stops
    /\ ~stops[s].resolved
    /\ LET T == stops[s].tasks
           starting == {t \in T : tasks[t].st = "registered"}
           finishing == {t \in T : tasks[t].st = "finished"}
       IN  /\ \E o \in Orders(finishing), kinds \in [starting -> Kinds] :
              LET L == dropped_at_start(starting, kinds)
              IN  /\ sink' = send_all(sink, o)
                  /\ tasks' = [t \in DOMAIN tasks |->
                        IF t \in starting THEN task_start(tasks[t], kinds[t])
                        ELSE IF t \in finishing
                            THEN task_complete(tasks[t],
                                    try_send(sink, tx_parked(tasks[t]), <<outcome_key(tasks[t]), t>>).ok)
                        ELSE tasks[t]]
                  /\ ls' = [l \in DOMAIN ls |->
                        IF l \in L THEN [ls[l] EXCEPT !.live = FALSE] ELSE ls[l]]
                  /\ bcs' = drop_listeners_bcs(L)
                  /\ woken' = woken \cup UNION {drop_listener_woken(ls[l]) : l \in L}
           /\ stops' = [stops EXCEPT ![s].polled = TRUE,
                            ![s].resolved = stop_ready(T, tasks')]
    /\ UNCHANGED <<groups, children, handles, hist>>

\* the work a factory spawned (tokio::spawn in test_util::blocker and in
\* tests::test_descendants) runs to its end: a blocker once its listener is
\* ready, a free task at any time; the listener it holds is dropped with it
Work(t) ==
    /\ t \in DOMAIN tasks
    /\ tasks[t].st = "running"
    /\ LET l == tasks[t].listener
           p == poll_listener(bcs[ls[l].bc], ls[l])
       IN  IF tasks[t].kind = "blocker"
           THEN /\ p.ready
                /\ ls' = [ls EXCEPT ![l] = [p.l EXCEPT !.live = FALSE, !.waker = NoWaker]]
                /\ bcs' = [bcs EXCEPT ![ls[l].bc] = drop_listener_bc(@)]
                /\ woken' = woken \cup drop_listener_woken(p.l)
           ELSE UNCHANGED <<ls, bcs, woken>>
    /\ tasks' = [tasks EXCEPT ![t].st = "finished", ![t].kind = None]
    /\ UNCHANGED <<groups, children, handles, stops, sink, hist>>

\* the caller takes one outcome from the receiving end of the channel
RecvOutcome ==
    /\ ~sink.closed
    /\ sink.queue # <<>>
    /\ sink' = [sink EXCEPT !.queue = Tail(@)]
    /\ UNCHANGED <<groups, children, tasks, ls, bcs, handles, stops, woken, hist>>

\* the caller drops the receiving end of the channel
CloseSink ==
    /\ ~sink.closed
    /\ sink' = [queue |-> <<>>, closed |-> TRUE]
    /\ UNCHANGED <<groups, children, tasks, ls, bcs, handles, stops, woken, hist>>

Next ==
    \/ \E key \in Keys : AddTask(key)
    \/ \E key \in Keys : StopGroup(key)
    \/ \E s \in 1..MaxCalls : PollStop(s)
    \/ \E t \in 1..MaxCalls : Work(t)
    \/ RecvOutcome
    \/ CloseSink

Spec == Init /\ [][Next]_vars

\* ------------------------------------------------------------------------
\* The stop signal on its own, used as signal.rs tests::test_stop uses it
\* ------------------------------------------------------------------------

\* what has been made of the broadcaster so far
Made == Len(ls) + (Len(handles) - 1) + Len(bcs[1].msgs)

SignalInit ==
    /\ groups = [k \in Keys |-> NoGroup]
    /\ children = [k \in Keys |-> {}]
    /\ tasks = <<>>
    /\ ls = <<>>
    /\ bcs = <<NewBroadcaster>>
    /\ handles = <<NewHandle(1)>>
    /\ stops = <<>>
    /\ sink = [queue |-> <<>>, closed |-> FALSE]
    /\ woken = {}
    /\ hist = [lookups |-> [k \in Keys |-> 0]]

\* x.listener().await
SMint(h) ==
    /\ h \in DOMAIN handles
    /\ handles[h].alive
    /\ Made < MaxMade
    /\ ls' = Append(ls, listener_new(handles[h].bc, bcs[handles[h].bc]))
    /\ bcs' = [bcs EXCEPT ![handles[h].bc] = listener_bc(@)]
    /\ UNCHANGED <<groups, children, tasks, handles, stops, sink, woken, hist>>

\* x.emit()
SEmit(h) ==
    /\ h \in DOMAIN handles
    /\ handles[h].alive
    /\ Made < MaxMade
    /\ bcs' = [bcs EXCEPT ![handles[h].bc] = emit(@, handles[h])]
    /\ ls' = notify_rx(ls, handles[h].bc)
    /\ UNCHANGED <<groups, children, tasks, handles, stops, sink, woken, hist>>

\* x.clone(): #[derive(Clone)] copies tx, sem, num and waker
SClone(h) ==
    /\ h \in DOMAIN handles
    /\ handles[h].alive
    /\ Made < MaxMade
    /\ handles' = Append(handles, [handles[h] EXCEPT !.res = "none"])
    /\ bcs' = [bcs EXCEPT ![handles[h].bc].senders = @ + 1]
    /\ UNCHANGED <<groups, children, tasks, ls, stops, sink, woken, hist>>

\* a StopBroadcaster instance goes out of scope
SDropB(h) ==
    /\ h \in DOMAIN handles
    /\ handles[h].alive
    /\ handles' = [handles EXCEPT ![h].alive = FALSE]
    /\ bcs' = [bcs EXCEPT ![handles[h].bc] = drop_handle_bc(@)]
    /\ ls' = IF bcs'[handles[h].bc].senders = 0
                THEN notify_rx(ls, handles[h].bc) ELSE ls
    /\ UNCHANGED <<groups, children, tasks, stops, sink, woken, hist>>

\* impl Future for StopBroadcaster, one poll by the task that awaits
\* instance h; a pending poll keeps that task's waker in self.waker
SPollB(h) ==
    /\ h \in DOMAIN handles
    /\ handles[h].alive
    /\ handles' = [handles EXCEPT ![h] =
          IF poll_broadcaster_ready(bcs[handles[h].bc])
              THEN [@ EXCEPT !.res = "ready"]
              ELSE [@ EXCEPT !.res = "pending", !.waker = h]]
    /\ woken' = woken \ {h}
    /\ UNCHANGED <<groups, children, tasks, ls, bcs, stops, sink, hist>>

\* impl Future for StopListener, one poll
SPollL(l) ==
    /\ l \in DOMAIN ls
    /\ ls[l].live
    /\ ls' = [ls EXCEPT ![l] = poll_listener(bcs[ls[l].bc], ls[l]).l]
    /\ UNCHANGED <<groups, children, tasks, bcs, handles, stops, sink, woken, hist>>

\* impl Drop for StopListener
SDropL(l) ==
    /\ l \in DOMAIN ls
    /\ ls[l].live
    /\ ls' = [ls EXCEPT ![l].live = FALSE, ![l].waker = NoWaker]
    /\ bcs' = [bcs EXCEPT ![ls[l].bc] = drop_listener_bc(@)]
    /\ woken' = woken \cup drop_listener_woken(ls[l])
    /\ UNCHANGED <<groups, children, tasks, handles, stops, sink, hist>>

SignalNext ==
    \/ \E h \in 1..(1 + MaxMade) : SMint(h)
    \/ \E h \in 1..(1 + MaxMade) : SEmit(h)
    \/ \E h \in 1..(1 + MaxMade) : SClone(h)
    \/ \E h \in 1..(1 + MaxMade) : SDropB(h)
    \/ \E h \in 1..(1 + MaxMade) : SPollB(h)
    \/ \E l \in 1..MaxMade : SPollL(l)
    \/ \E l \in 1..MaxMade : SDropL(l)

SignalSpec == SignalInit /\ [][SignalNext]_vars

\* ------------------------------------------------------------------------
\* The tree of tests::test_descendants: every key of the enum is given one
\* task, in any order
\* ------------------------------------------------------------------------

TreeInit ==
    /\ groups = [k \in TreeKeys |-> NoGroup]
    /\ children = [k \in TreeKeys |-> {}]
    /\ tasks = <<>>
    /\ ls = <<>>
    /\ bcs = <<>>
    /\ handles = <<>>
    /\ stops = <<>>
    /\ sink = [queue |-> <<>>, closed |-> FALSE]
    /\ woken = {}
    /\ hist = [lookups |-> [k \in TreeKeys |-> 0]]

\* for key in keys.clone() { tm.add_task(key.clone(), ..) }, keys shuffled
TreeAdd(key) ==
    /\ groups[key] = NoGroup
    /\ add_task(key)

TreeNext == \E key \in TreeKeys : TreeAdd(key)

TreeSpec == TreeInit /\ [][TreeNext]_vars

\* ------------------------------------------------------------------------
\* The nesting of tests::test_group_nesting: the manager after one task has
\* been added under each of A, B and C, and the calls made on it from there
\* ------------------------------------------------------------------------

\* the task add_task registers under key, with listener l
NestTask(key, l) ==
    [key |-> key, kind |-> None, listener |-> l, st |-> "registered",
     calls |-> 0, sends |-> 0, drops |-> 0, tag |-> None]

\* tm.add_task(A, ..); tm.add_task(B, ..); tm.add_task(C, ..)
NestInit ==
    /\ groups = [k \in Keys |->
                   CASE k = "A" -> [tasks |-> {1}, stopper |-> 1]
                     [] k = "B" -> [tasks |-> {2}, stopper |-> 2]
                     [] k = "C" -> [tasks |-> {3}, stopper |-> 3]]
    /\ children = [k \in Keys |-> {c \in Keys : parent_map(c) = k}]
    /\ tasks = <<NestTask("A", 1), NestTask("B", 2), NestTask("C", 3)>>
    /\ ls = [l \in 1..Cardinality(Keys) |-> listener_new(l, NewBroadcaster)]
    /\ bcs = [b \in 1..Cardinality(Keys) |-> listener_bc(NewBroadcaster)]
    /\ handles = [h \in 1..Cardinality(Keys) |-> NewHandle(h)]
    /\ stops = <<>>
    /\ sink = [queue |-> <<>>, closed |-> FALSE]
    /\ woken = {}
    /\ hist = [lookups |-> [k \in Keys |-> 1]]

NestAddTask(key) ==
    /\ Len(tasks) + Len(stops) < Cardinality(Keys) + MaxNest
    /\ add_task(key)

NestStopGroup(key) ==
    /\ Len(tasks) + Len(stops) < Cardinality(Keys) + MaxNest
    /\ stop_group(key)

NestNext ==
    \/ \E key \in Keys : NestAddTask(key)
    \/ \E key \in Keys : NestStopGroup(key)
    \/ \E s \in 1..MaxNest : PollStop(s)
    \/ \E t \in 1..(Cardinality(Keys) + MaxNest) : Work(t)

NestSpec == NestInit /\ [][NestNext]_vars

\* the caller keeps polling every GroupStop future it was given
FairSpec ==
    /\ Spec
    /\ \A s \in 1..MaxCalls : WF_vars(PollStop(s))

\* every task that was started exits when it can
EveryTaskExits == \A t \in 1..MaxCalls : WF_vars(Work(t))

\* ------------------------------------------------------------------------
\* Vocabulary of the properties
\* ------------------------------------------------------------------------

\* the keys reachable from the keys of S through the adjacency index ch
RECURSIVE ReachFrom(_, _)
ReachFrom(ch, S) ==
    LET N == S \cup UNION {ch[x] : x \in S}
    IN  IF N = S THEN S ELSE ReachFrom(ch, N)

\* key and everything transitively reachable from it in the adjacency index
Closure(key) == ReachFrom(children, {key})

\* key and its ancestors under the parent lookup
RECURSIVE Chain(_)
Chain(key) ==
    IF parent_map(key) = None THEN {key} ELSE {key} \cup Chain(parent_map(key))

\* this step is a stop_group call, and NewStop is the future it returns
StopCall == Len(stops') = Len(stops) + 1
NewStop == stops'[Len(stops')]

\* this step is an add_task call, and NewTask is the task it registers
AddCall == Len(tasks') = Len(tasks) + 1
NewTask == tasks'[Len(tasks')]

\* the broadcaster of the group registered under g after this step
NewBc(g) == handles'[groups'[g].stopper].bc

\* the broadcaster of the group registered under g
GroupBc(g) == handles[groups[g].stopper].bc

\* the tasks whose listener was minted from the group now registered under g
GroupTasks(g) ==
    {t \in DOMAIN tasks : tasks[t].key = g /\ ls[tasks[t].listener].bc = GroupBc(g)}

\* the number of listeners minted from broadcaster b and not dropped
LiveListeners(b) == Cardinality({l \in DOMAIN ls : ls[l].bc = b /\ ls[l].live})

\* ------------------------------------------------------------------------
\* Properties
\* ------------------------------------------------------------------------

\* C1: right after stop_group(k) returns, before the returned future is
\* polled, no key reachable from k through the adjacency index has a group
\* in the registry, and num_tasks is 0 for each of them.
C1_StopRemovesSubtree ==
    [][StopCall =>
          \A d \in Closure(NewStop.key) :
              groups'[d] = NoGroup /\ num_tasks(d)' = 0]_vars

\* C1 witness: a stop_group call has just removed groups under two keys, its
\* future is not polled yet, and nothing reachable from its key is registered
C1_Witness ==
    \E s \in DOMAIN stops :
        /\ ~stops[s].polled
        /\ Cardinality({tasks[t].key : t \in stops[s].tasks}) >= 2
        /\ \A d \in Closure(stops[s].key) : groups[d] = NoGroup

\* C2: a GroupStop future is not resolved while a task drained into it is
\* incomplete, and, when it keeps being polled and every task exits when it
\* can, it is eventually resolved.
C2_StopResolvesWhenDrained ==
    /\ [](\A s \in DOMAIN stops :
             stops[s].resolved => \A t \in stops[s].tasks : tasks[t].st = "done")
    /\ EveryTaskExits =>
          \A s \in 1..MaxCalls :
              (s \in DOMAIN stops) ~> (s \in DOMAIN stops /\ stops[s].resolved)

\* C2 witness: a future over the tasks of two groups has resolved
C2_Witness ==
    \E s \in DOMAIN stops :
        /\ stops[s].resolved
        /\ Cardinality({tasks[t].key : t \in stops[s].tasks}) >= 2

\* C3: stop_group(k) leaves every group outside the closure of k as it was:
\* still registered with the same tasks and the same num_tasks, its
\* broadcaster not fired by the call, its listeners untouched and not ready.
C3_StopFrame ==
    [][StopCall =>
          \A g \in Keys \ Closure(NewStop.key) :
              /\ groups'[g] = groups[g]
              /\ num_tasks(g)' = num_tasks(g)
              /\ groups[g] # NoGroup =>
                    /\ bcs'[GroupBc(g)] = bcs[GroupBc(g)]
                    /\ \A t \in groups[g].tasks :
                          /\ ls'[tasks[t].listener] = ls[tasks[t].listener]
                          /\ ~recv(bcs'[GroupBc(g)], ls'[tasks[t].listener]).ready
                          /\ tasks'[t] = tasks[t]]_vars

\* C3 witness: a stop_group call has drained a group while a group outside
\* its closure is still registered with a task
C3_Witness ==
    \E s \in DOMAIN stops :
        /\ ~stops[s].polled
        /\ stops[s].tasks # {}
        /\ \E g \in Keys \ Closure(stops[s].key) : num_tasks(g) >= 1

\* C4: the factory of every add_task call has been invoked exactly once by
\* the time add_task has returned, whether or not a stop future is polled.
C4_FactoryCalledInAddTask ==
    \A t \in DOMAIN tasks : tasks[t].calls = 1

\* C5: num_tasks(key) is the number of tasks of the group now registered
\* under key that have not completed, and 0 when key has no group.
C5_NumTasksCountsIncomplete ==
    \A k \in Keys :
        IF groups[k] = NoGroup
            THEN num_tasks(k) = 0
            ELSE num_tasks(k) =
                 Cardinality({t \in GroupTasks(k) :
                                 tasks[t].st \notin {"finished", "done"}})

\* C5 witness: a key whose earlier group was drained has a new group with
\* one task, next to a completed task of the earlier group
C5_Witness ==
    \E k \in Keys :
        /\ num_tasks(k) = 1
        /\ \E t \in DOMAIN tasks : tasks[t].key = k /\ tasks[t].st = "done"

\* C6: while the sink is open, every completed task has pushed exactly one
\* pair, tagged with the key it was registered under, every other task has
\* pushed none, every queued pair carries the key of its task, and a
\* resolved stop future has one pair for each of its tasks; tasks of groups
\* still registered have pushed none.
C6_OneOutcomePerTask ==
    ~sink.closed =>
        /\ \A t \in DOMAIN tasks :
              IF tasks[t].st = "done"
                  THEN tasks[t].sends = 1 /\ tasks[t].drops = 0
                       /\ tasks[t].tag = tasks[t].key
                  ELSE tasks[t].sends = 0
        /\ \A i \in DOMAIN sink.queue :
              /\ sink.queue[i][2] \in DOMAIN tasks
              /\ sink.queue[i][1] = tasks[sink.queue[i][2]].key
              /\ \A j \in DOMAIN sink.queue :
                    sink.queue[i][2] = sink.queue[j][2] => i = j
        /\ \A s \in DOMAIN stops :
              stops[s].resolved => \A t \in stops[s].tasks : tasks[t].sends = 1
        /\ \A g \in Keys :
              groups[g] # NoGroup => \A t \in groups[g].tasks : tasks[t].sends = 0

\* C6 witness: with the sink open, a stop future over the tasks of two
\* groups has resolved, the pairs are queued beyond the buffer, and a group
\* outside the stopped subtree is still registered
C6_Witness ==
    /\ ~sink.closed
    /\ Len(sink.queue) > SinkBuffer
    /\ \E s \in DOMAIN stops :
          /\ stops[s].resolved
          /\ Cardinality({tasks[t].key : t \in stops[s].tasks}) >= 2
          /\ \E g \in Keys \ Closure(stops[s].key) : num_tasks(g) >= 1

\* C7 as stated: when the sink is closed, or already holds as many outcomes
\* as its buffer, the outcome of a task that completes is dropped.
C7_ClosedOrFullDrops ==
    [][\A t \in DOMAIN tasks :
          (/\ tasks[t].st = "finished"
           /\ tasks'[t].st = "done"
           /\ (sink.closed \/ Len(sink.queue) >= SinkBuffer))
          => (tasks'[t].sends = 0 /\ tasks'[t].drops = 1)]_vars

\* C7 amended: a task that completes while the sink is closed drops its
\* outcome and changes nothing else, a task that completes while the sink is
\* open queues its pair even when the buffer is already full, the task
\* completes either way, the registry is untouched, and a polled stop future
\* whose tasks are all complete is resolved.
C7_ClosedSinkDropsOnly ==
    /\ [][\A t \in DOMAIN tasks :
             (tasks[t].st = "finished" /\ tasks'[t] # tasks[t]) =>
                 /\ tasks'[t].st = "done"
                 /\ groups' = groups /\ children' = children
                 /\ IF sink.closed
                       THEN /\ tasks'[t].sends = 0 /\ tasks'[t].drops = 1
                            /\ sink' = sink
                       ELSE /\ tasks'[t].sends = 1 /\ tasks'[t].drops = 0
                            /\ \E i \in DOMAIN sink'.queue :
                                  sink'.queue[i] = <<tasks[t].key, t>>]_vars
    /\ [](\A s \in DOMAIN stops :
             (stops[s].polled /\ \A t \in stops[s].tasks : tasks[t].st = "done")
                 => stops[s].resolved)

\* C7 witness: the sink is closed, a task has completed with its outcome
\* dropped, and the stop future that holds it has resolved
C7_Witness ==
    /\ sink.closed
    /\ \E s \in DOMAIN stops :
          /\ stops[s].resolved
          /\ \E t \in stops[s].tasks : tasks[t].drops = 1 /\ tasks[t].sends = 0

\* C8 as stated: stop_group on a key that has no group returns a future
\* that waits for no task.
C8_AbsentKeyStopsNothing ==
    [][(StopCall /\ groups[NewStop.key] = NoGroup) => NewStop.tasks = {}]_vars

\* C8 amended: num_tasks is 0 for a key without a group; stop_group on a key
\* such that neither it nor any key reachable from it has a group returns a
\* future over no task, and such a future is resolved by its first poll.
C8_EmptyClosureResolvesAtOnce ==
    /\ [](\A k \in Keys : groups[k] = NoGroup => num_tasks(k) = 0)
    /\ [][(StopCall /\ \A d \in Closure(NewStop.key) : groups[d] = NoGroup)
             => NewStop.tasks = {}]_vars
    /\ [](\A s \in DOMAIN stops :
             (stops[s].tasks = {} /\ stops[s].polled) => stops[s].resolved)

\* C8 witness: while some group is registered, a stop future over no task
\* has been polled and is resolved
C8_Witness ==
    /\ \E g \in Keys : num_tasks(g) >= 1
    /\ \E s \in DOMAIN stops :
          stops[s].tasks = {} /\ stops[s].polled /\ stops[s].resolved

\* C9 as stated: stop_group on a key that has no group changes neither the
\* registry nor any broadcaster.
C9_AbsentKeyIsNoOp ==
    [][(StopCall /\ groups[NewStop.key] = NoGroup)
          => (groups' = groups /\ bcs' = bcs)]_vars

\* C9 amended: stop_group on a key such that neither it nor any key
\* reachable from it has a group changes nothing but the list of futures.
C9_EmptyClosureIsNoOp ==
    [][(StopCall /\ \A d \in Closure(NewStop.key) : groups[d] = NoGroup)
          => /\ groups' = groups /\ children' = children
             /\ bcs' = bcs /\ handles' = handles
             /\ tasks' = tasks /\ ls' = ls /\ sink' = sink]_vars

\* C9 witness: stop_group was called again on a key it had already removed,
\* while another group stays registered
C9_Witness ==
    /\ \E g \in Keys : num_tasks(g) >= 1
    /\ \E s1, s2 \in DOMAIN stops :
          /\ s1 < s2
          /\ stops[s1].key = stops[s2].key
          /\ stops[s1].tasks # {}
          /\ stops[s2].tasks = {}

\* C10: a poll of a broadcaster returns ready exactly when its live-listener
\* counter is 0, which is exactly when no listener minted from it is
\* undropped, whether or not the signal has fired.
C10_BroadcasterReadyIffZero ==
    [][\A h \in DOMAIN handles :
          SPollB(h) =>
              /\ handles'[h].res = "ready" <=> len(bcs[handles[h].bc]) = 0
              /\ handles'[h].res = "ready" <=> LiveListeners(handles[h].bc) = 0
              /\ handles'[h].res \in {"ready", "pending"}]_vars

\* C10 witness: after the signal has fired a broadcaster with an undropped
\* listener has been polled and is pending, while a clone that was polled
\* when no listener existed is ready
C10_Witness ==
    \E h1, h2 \in DOMAIN handles :
        /\ handles[h1].res = "pending"
        /\ handles[h2].res = "ready"
        /\ Len(bcs[handles[h1].bc].msgs) >= 1
        /\ LiveListeners(handles[h1].bc) >= 1

\* a poll of a listener made while no signal has been sent since it was
\* minted is pending (it is not once every broadcaster instance is dropped:
\* recv then returns Closed)
C11_PendingBeforeFire ==
    [][\A l \in DOMAIN ls :
          (SPollL(l) /\ Len(bcs[ls[l].bc].msgs) = ls[l].pos)
              => ls'[l].res = "pending"]_vars

\* the first poll of a listener made after a signal was sent is ready
C11_ReadyAfterFire ==
    [][\A l \in DOMAIN ls :
          (SPollL(l) /\ Len(bcs[ls[l].bc].msgs) > ls[l].pos)
              => ls'[l].res = "ready"]_vars

\* C11: when the broadcaster fires, the task waiting on a listener minted
\* before the fire, whose polls so far were pending, is woken to make the
\* poll that observes readiness; this for every listener of the broadcaster.
C11_WokenByFire ==
    [][\A h \in DOMAIN handles :
          (SEmit(h) /\ bcs'[handles[h].bc] # bcs[handles[h].bc]) =>
              \A l \in DOMAIN ls :
                  (ls[l].bc = handles[h].bc /\ ls[l].live /\ ls[l].res = "pending")
                      => ls'[l].notified]_vars

\* C12: when a listener is dropped the counter of its broadcaster goes down
\* by exactly 1, and every wait pending on an instance of that broadcaster
\* (a clone included, and a wait begun after the signal fired) is woken.
C12_DropWakesBroadcasterWaits ==
    [][\A l \in DOMAIN ls :
          SDropL(l) =>
              /\ len(bcs'[ls[l].bc]) = len(bcs[ls[l].bc]) - 1
              /\ \A h \in DOMAIN handles :
                    (/\ handles[h].bc = ls[l].bc
                     /\ handles[h].alive
                     /\ handles[h].res = "pending")
                        => h \in woken']_vars

\* C13: add_task on a key without a group, also one whose earlier group
\* stop_group removed, makes a group with a broadcaster of its own: its
\* num_tasks is 1, its counter and its number of live listeners are 1, no
\* signal has been sent on it, no earlier listener belongs to it or is
\* changed; and a stop_group call makes ready only listeners of the tasks it
\* drains, so the signal of the new group does not reach the old listeners.
C13_RecreatedGroupIsFresh ==
    /\ [][\A k \in Keys :
             (AddCall /\ NewTask.key = k /\ groups[k] = NoGroup) =>
                 /\ groups'[k] # NoGroup
                 /\ NewBc(k) \notin DOMAIN bcs
                 /\ num_tasks(k)' = 1
                 /\ len(bcs'[NewBc(k)]) = 1
                 /\ Cardinality({l \in DOMAIN ls' :
                                    ls'[l].bc = NewBc(k) /\ ls'[l].live}) = 1
                 /\ bcs'[NewBc(k)].msgs = <<>>
                 /\ \A l \in DOMAIN ls :
                       /\ ls'[l] = ls[l]
                       /\ ls[l].bc # NewBc(k)
                       /\ bcs'[ls[l].bc] = bcs[ls[l].bc]]_vars
    /\ [][StopCall =>
             \A l \in DOMAIN ls :
                 (/\ ~recv(bcs[ls[l].bc], ls[l]).ready
                  /\ recv(bcs'[ls'[l].bc], ls'[l]).ready)
                     => \E t \in NewStop.tasks : tasks[t].listener = l]_vars

\* C13 witness: a key has a new group with one task while the listener of a
\* task of its removed group is still alive, and the new group has been
\* stopped in turn
C13_Witness ==
    \E t1, t2 \in DOMAIN tasks :
        /\ t1 < t2
        /\ tasks[t1].key = tasks[t2].key
        /\ ls[tasks[t1].listener].bc # ls[tasks[t2].listener].bc
        /\ ls[tasks[t1].listener].live
        /\ \E s \in DOMAIN stops : stops[s].tasks = {t2}

\* C14: whatever the order in which the groups were created, descendants(k)
\* contains k, is the set of keys reachable from k through the adjacency
\* index, holds the children of each of its members, and, once every key
\* has been created, is the set of keys whose chain of parents reaches k.
C14_DescendantsIsClosure ==
    \A k \in DOMAIN children :
        /\ k \in descendants(k)
        /\ descendants(k) = Closure(k)
        /\ \A x \in descendants(k) : children[x] \subseteq descendants(k)
        /\ (\A x \in DOMAIN children : hist.lookups[x] >= 1)
              => descendants(k) = {x \in DOMAIN children : k \in Chain(x)}

\* C14 witness: every key has been created, the deepest one first and the
\* root last, and descendants(B) is the subtree of B
C14_Witness ==
    /\ \A x \in TreeKeys : x \in DOMAIN groups /\ groups[x] # NoGroup
    /\ tasks[1].key = "F"
    /\ tasks[Len(tasks)].key = "A"
    /\ descendants("B") = {"B", "C", "D", "E", "F", "G"}

\* C15 as stated: as long as a task drained into a stop future has not
\* consulted its listener, the listener is not dropped (the counter is not
\* decremented for it) and the future is not resolved.
C15_UnconsultedNeverResolves ==
    \A s \in DOMAIN stops :
        \A t \in stops[s].tasks :
            ls[tasks[t].listener].res = "none"
                => (ls[tasks[t].listener].live /\ ~stops[s].resolved)

\* C15 amended: a stop future is not resolved while a task drained into it
\* has not completed, whether or not the task consulted its listener; a task
\* that has run to its end without consulting its listener has dropped it,
\* and the counter of its broadcaster counts the listeners still alive.
C15_OnlyExitMatters ==
    /\ \A s \in DOMAIN stops :
          \A t \in stops[s].tasks :
              tasks[t].st # "done" => ~stops[s].resolved
    /\ \A t \in DOMAIN tasks :
          (tasks[t].st \in {"finished", "done"} /\ ls[tasks[t].listener].res = "none")
              => /\ ~ls[tasks[t].listener].live
                 /\ len(bcs[ls[tasks[t].listener].bc])
                       = LiveListeners(ls[tasks[t].listener].bc)

\* C15 witness: a stop future has resolved although one of its tasks never
\* consulted its listener, while another of its tasks did
C15_Witness ==
    \E s \in DOMAIN stops :
        /\ stops[s].resolved
        /\ \E t \in stops[s].tasks : ls[tasks[t].listener].res = "none"
        /\ \E t \in stops[s].tasks : ls[tasks[t].listener].res = "ready"

\* C16: the counter of every broadcaster is the number of listeners minted
\* from it and not dropped, and is never below 0; minting a listener adds 1
\* to it and the drop of a listener, which happens once, takes 1 off.
C16_CounterCountsLiveListeners ==
    /\ [](\A b \in DOMAIN bcs :
             len(bcs[b]) = LiveListeners(b) /\ len(bcs[b]) >= 0)
    /\ [][\A h \in DOMAIN handles :
             SMint(h) => len(bcs'[handles[h].bc]) = len(bcs[handles[h].bc]) + 1]_vars
    /\ [][\A l \in DOMAIN ls :
             (ls[l].live /\ ~ls'[l].live)
                 => len(bcs'[ls[l].bc]) = len(bcs[ls[l].bc]) - 1]_vars
    /\ [][\A l \in DOMAIN ls : ~ls[l].live => ~ls'[l].live]_vars

\* C16 witness: of three listeners minted from a broadcaster, through two of
\* its instances, one has been dropped and the counter is 2
C16_Witness ==
    \E b \in DOMAIN bcs :
        /\ len(bcs[b]) = 2
        /\ Cardinality({l \in DOMAIN ls : ls[l].bc = b}) = 3
        /\ Len(handles) >= 2

\* C17: a stop_group call on a key a removes, signals and drains every
\* registered group d below a whose key was created more than once and whose
\* parent has been created and has no group now, together with the tasks of
\* the group of a itself.
C17_RecreatedUnderRemovedParent ==
    [][\A a, d \in Keys :
          (/\ StopCall /\ NewStop.key = a
           /\ a \in Chain(d) /\ a # d
           /\ groups[d] # NoGroup
           /\ hist.lookups[d] >= 2
           /\ hist.lookups[parent_map(d)] >= 1
           /\ groups[parent_map(d)] = NoGroup)
          => /\ groups'[d] = NoGroup
             /\ num_tasks(d)' = 0
             /\ groups[d].tasks # {}
             /\ groups[d].tasks \subseteq NewStop.tasks
             /\ Len(bcs'[GroupBc(d)].msgs) = Len(bcs[GroupBc(d)].msgs) + 1
             /\ groups[a] # NoGroup => groups[a].tasks \subseteq NewStop.tasks]_vars

\* C17 witness: after stop_group(B) removed B and C and C was given a new
\* task, stop_group(A) has drained the task of A and the new task of C, and
\* its future has resolved
C17_Witness ==
    \E s1, s2 \in DOMAIN stops :
        /\ s1 < s2
        /\ stops[s1].key = "B" /\ stops[s1].tasks = {2, 3}
        /\ stops[s2].key = "A" /\ stops[s2].tasks = {1, 4}
        /\ tasks[4].key = "C"
        /\ stops[s2].resolved

\* C18: right after stop_group(k) returns, no key whose chain of parents
\* under the parent lookup reaches k has a group in the registry, in whatever
\* order the groups were created.
C18_NoDescendantRemains ==
    [][StopCall =>
          \A d \in Keys :
              NewStop.key \in Chain(d) => groups'[d] = NoGroup]_vars

\* the groups made so far under key k, each with a broadcaster of its own
GroupsMade(k) ==
    Cardinality({ls[tasks[t].listener].bc : t \in {u \in DOMAIN tasks : tasks[u].key = k}})

\* C19 as stated: the parent lookup is made at most once for each key.
C19_LookupAtMostOncePerKey ==
    \A k \in Keys : hist.lookups[k] <= 1

\* C19 amended: the parent lookup is made once each time a group is made for
\* a key, the first time and every time after its removal, and never by an
\* add_task on a key that has a group or by any other step; an add_task
\* call changes no registry entry but that of its key, the parent's included.
C19_LookupOncePerCreation ==
    /\ [](\A k \in Keys : hist.lookups[k] = GroupsMade(k))
    /\ [][\A k \in Keys :
             (AddCall /\ NewTask.key = k) =>
                 /\ hist'.lookups[k] =
                       hist.lookups[k] + (IF groups[k] = NoGroup THEN 1 ELSE 0)
                 /\ groups'[k] # NoGroup
                 /\ \A j \in Keys \ {k} :
                       /\ hist'.lookups[j] = hist.lookups[j]
                       /\ groups'[j] = groups[j]]_vars
    /\ [][~AddCall => hist' = hist]_vars

\* C19 witness: a key has been given two tasks in one group and then, after
\* its removal, a task in a new group, so that the lookup was made twice for
\* it, while its parent has never had a group
C19_Witness ==
    \E k \in Keys :
        /\ hist.lookups[k] = 2
        /\ Cardinality({t \in DOMAIN tasks : tasks[t].key = k}) = 3
        /\ parent_map(k) # None
        /\ hist.lookups[parent_map(k)] = 0
        /\ groups[parent_map(k)] = NoGroup

\* the keys without a group whose tasks were drained into a stop future
\* that has resolved
FullyStopped ==
    {k \in Keys :
        /\ groups[k] = NoGroup
        /\ \E s \in DOMAIN stops :
              stops[s].resolved /\ \E t \in stops[s].tasks : tasks[t].key = k}

\* C20 as stated: a key whose group was removed and whose drained tasks have
\* all completed has no entry with children in the adjacency index and is in
\* no child set.
C20_NoTraceInIndex ==
    \A k \in FullyStopped :
        children[k] = {} /\ \A p \in Keys : k \notin children[p]

\* C20 amended: such a key is absent from the registry and its num_tasks is
\* 0, but the adjacency index keeps it: it stays in the child set of its
\* parent; no step takes a key out of a child set, and only add_task
\* changes the index.
C20_IndexKeepsRemovedKeys ==
    /\ [](\A k \in FullyStopped :
             /\ groups[k] = NoGroup /\ num_tasks(k) = 0
             /\ parent_map(k) # None => k \in children[parent_map(k)])
    /\ [][\A k \in Keys : children[k] \subseteq children'[k]]_vars
    /\ [][~AddCall => children' = children]_vars

\* C20 witness: the groups of B and C were removed and their tasks have
\* completed, and the index still holds B under A and C under B
C20_Witness ==
    /\ {"B", "C"} \subseteq FullyStopped
    /\ "B" \in children["A"]
    /\ "C" \in children["B"]

====
